---- MODULE Spec2Model ----
(***************************************************************************)
(* Model of examples/models/models_solar_system.c: the Body tree, its      *)
(* construction in main, and the per-frame update-and-draw traversal.      *)
(*                                                                         *)
(* Numbers.  The C floats are modelled in exact scaled-integer arithmetic: *)
(*   - lengths (radius, orbitRadius) in thousandths;                       *)
(*   - rotationSpeed in tenths (SpeedScale), so 0.2 is 2 and one key      *)
(*     press changes it by 1;                                              *)
(*   - angles in units of 1/AngleScale degree.  AngleScale is chosen so    *)
(*     that rotationSpeed*360/orbitPeriod is an integer number of units    *)
(*     for the orbit periods of every body main attaches                   *)
(*     (24, 90, 210, 365, 690).                                            *)
(* Float rounding is not modelled.                                         *)
(*                                                                         *)
(* Pointers to Body are modelled by the name of the C variable they point  *)
(* to; NULL is the string "NULL".                                          *)
(***************************************************************************)
EXTENDS Integers, Sequences, FiniteSets, TLC

\* ---------------------------------------------------------------- bounds
\* Frames the full-input specification runs.
MaxFrames == 4
\* Frames the constant-speed specification runs.
MaxRunFrames == 1830
\* Frames of the constant-speed specification in which speed keys may still
\* be pressed (the constant-speed run starts after them).
MaxMarkFrame == 2
\* AddBodyChildren calls the attach specification makes.
MaxAddCalls == 12

\* ------------------------------------------------------- program constants
MAX_BODY_CHILDREN == 10

\* Units of rotationSpeed per 1.0 (the float 0.2 is 2, the step 0.1 is 1).
SpeedScale == 10
\* Angle units per degree: lcm(24, 90, 210, 365, 690) / 36.
AngleScale == 117530
\* 360 degrees in angle units.
FullTurn == 360 * AngleScale

NULL == "NULL"

\* The arguments of the eleven CreateBody calls of main, in call order.
\* radius and orbitRadius are in thousandths.
CreateCalls ==
  << [var |-> "sun",     radius |-> 200, orbitRadius |-> 0,     orbitPeriod |-> 0,     label |-> "sun",     texture |-> "2k_sun"],
     [var |-> "moon",    radius |-> 20,  orbitRadius |-> 200,   orbitPeriod |-> 24,    label |-> "moon",    texture |-> "2k_moon"],
     [var |-> "mercury", radius |-> 50,  orbitRadius |-> 396,   orbitPeriod |-> 90,    label |-> "mercury", texture |-> "2k_mercury"],
     [var |-> "venus",   radius |-> 50,  orbitRadius |-> 723,   orbitPeriod |-> 210,   label |-> "venus",   texture |-> "2k_venus_atmosphere"],
     [var |-> "earth",   radius |-> 50,  orbitRadius |-> 1000,  orbitPeriod |-> 365,   label |-> "earth",   texture |-> "2k_earth_daymap"],
     [var |-> "mars",    radius |-> 50,  orbitRadius |-> 1523,  orbitPeriod |-> 690,   label |-> "mars",    texture |-> "2k_mars"],
     [var |-> "jupiter", radius |-> 50,  orbitRadius |-> 5200,  orbitPeriod |-> 4260,  label |-> "jupiter", texture |-> "2k_jupiter"],
     [var |-> "saturn",  radius |-> 50,  orbitRadius |-> 9532,  orbitPeriod |-> 10620, label |-> "saturn",  texture |-> "2k_saturn"],
     [var |-> "uranus",  radius |-> 50,  orbitRadius |-> 19180, orbitPeriod |-> 30270, label |-> "uranus",  texture |-> "2k_uranus"],
     [var |-> "neptune", radius |-> 50,  orbitRadius |-> 30056, orbitPeriod |-> 59370, label |-> "neptune", texture |-> "2k_neptune"],
     [var |-> "pluto",   radius |-> 50,  orbitRadius |-> 39463, orbitPeriod |-> 89310, label |-> "pluto",   texture |-> "2k_eris_fictional"] >>

\* The Body variables of main.
BodyVars == { CreateCalls[i].var : i \in 1..Len(CreateCalls) }

\* A variant of the attach calls in which the moon is attached to the sun as
\* well as to the earth.
AttachCalls_MoonTwice ==
  << <<"sun", "mercury">>, <<"sun", "venus">>, <<"sun", "earth">>,
     <<"sun", "mars">>, <<"sun", "moon">>, <<"earth", "moon">> >>

\* The AddBodyChildren calls of main, in call order: <<parent, children>>.
AttachCalls ==
  << <<"sun", "mercury">>, <<"sun", "venus">>, <<"sun", "earth">>,
     <<"sun", "mars">>, <<"earth", "moon">> >>

\* ------------------------------------------------------------------ state
VARIABLES
  pc,               \* where main is: "create", "attach", "loop", "done"
  step,             \* index of the next CreateBody / AddBodyChildren call
  bodies,           \* the Body variables created so far: name -> Body
  rotationSpeed,    \* the global rotationSpeed, in tenths
  showHelpMenu,     \* main's local
  showBodyLabels,   \* main's local
  camera,           \* the camera pose
  resources,        \* textures and models currently loaded
  released,         \* textures and models that were loaded and released
  frameLog,         \* the library calls the last frame issued, in order
  traceLog,         \* the messages passed to TraceLog, in order
  frames,           \* history: frames completed
  twin,             \* second run with the same speed keys: its bodies
  twinLabels,       \* second run: its showBodyLabels
  startFrame,       \* history: frame at which the constant-speed run began
  startOrbit,       \* history: orbitPosition of each body at startFrame
  lastAdd,          \* history: <<parent, children>> of the last AddBodyChildren
  addCalls          \* history: number of AddBodyChildren calls made

vars == << pc, step, bodies, rotationSpeed, showHelpMenu, showBodyLabels,
           camera, resources, released, frameLog, traceLog, frames, twin,
           twinLabels, startFrame, startOrbit, lastAdd, addCalls >>

\* ------------------------------------------- library calls (raylib, rlgl)
\* A world-space point: coordinates in thousandths, and the transform (a
\* sequence of rlgl operations) they are taken in; <<>> is world space.
Vector3(x, y, z) == [xyz |-> <<x, y, z>>, xf |-> <<>>]

\* GetWorldToScreen(position, camera): the screen projection of a point
\* through a camera.  The projection is kept symbolic.
GetWorldToScreen(position, cam) == [position |-> position, camera |-> cam]

\* Vector2 { 0 }.
ZeroVector2 == [position |-> Vector3(0, 0, 0), camera |-> 0 - 1]

\* TraceLog(logType, text): records the message and returns.
TraceLog(log, logType, text) == Append(log, <<logType, text>>)

\* LoadTexture / LoadModel: acquire one resource.  gpu.resources are the
\* handles loaded now, gpu.released those unloaded; a handle is never reused.
NewHandle(gpu, kind) == <<kind, Cardinality(gpu.resources \cup gpu.released) + 1>>
LoadTexture(gpu) == [gpu EXCEPT !.resources = @ \cup { NewHandle(gpu, "texture") }]
LoadModel(gpu) == [gpu EXCEPT !.resources = @ \cup { NewHandle(gpu, "model") }]

\* CloseWindow(): closes the window and the OpenGL context; every resource
\* still loaded is released with it.
CloseWindow(gpu) == [resources |-> {}, released |-> gpu.released \cup gpu.resources]

\* rlPushMatrix / rlPopMatrix / rlRotatef / rlTranslatef on the drawing
\* state st: st.matrix is the active transform, st.stack the saved ones.
rlPushMatrix(st) == [st EXCEPT !.stack = Append(@, st.matrix),
                               !.log = Append(@, [call |-> "rlPushMatrix", body |-> "", arg |-> <<>>])]
rlPopMatrix(st) == [st EXCEPT !.matrix = st.stack[Len(st.stack)],
                              !.stack = SubSeq(@, 1, Len(@) - 1),
                              !.log = Append(@, [call |-> "rlPopMatrix", body |-> "", arg |-> <<>>])]
rlRotatef(st, angle) == [st EXCEPT !.matrix = Append(@, <<"R", angle>>)]
rlTranslatef(st, x) == [st EXCEPT !.matrix = Append(@, <<"T", x>>)]

\* A drawing call that changes no model state: it is recorded in the log.
Emit(st, call, body, arg) ==
  [st EXCEPT !.log = Append(@, [call |-> call, body |-> body, arg |-> arg])]

\* ------------------------------------------------------------ CreateBody
\* Body body = { 0 }.
ZeroBody ==
  [ label |-> "", radius |-> 0, orbitRadius |-> 0, orbitPeriod |-> 0,
    rotationPeriod |-> 0, texture |-> NULL, model |-> NULL,
    orbitPosition |-> 0, rotationPosition |-> 0,
    labelPosition |-> ZeroVector2,
    children |-> [i \in 0..(MAX_BODY_CHILDREN - 1) |-> NULL],
    childrenCount |-> 0 ]

\* CreateBody(radius, orbitRadius, orbitPeriod, label, texture_name): the
\* Body it returns and the resources loaded afterwards.
CreateBody(gpu, c) ==
  [ body |-> [ ZeroBody EXCEPT
                 !.label = c.label,
                 !.radius = c.radius * 10,
                 !.orbitRadius = c.orbitRadius * 10,
                 !.orbitPeriod = c.orbitPeriod,
                 !.texture = NewHandle(gpu, "texture"),
                 !.model = NewHandle(LoadTexture(gpu), "model"),
                 !.childrenCount = 0,
                 !.orbitPosition = 0 ],
    gpu |-> LoadModel(LoadTexture(gpu)) ]

\* ------------------------------------------------------- AddBodyChildren
\* AddBodyChildren with the capacity test off by one.
AddBodyChildren_OffByOne(bs, log, parent, children) ==
  IF bs[parent].childrenCount > MAX_BODY_CHILDREN
  THEN [bodies |-> bs, log |-> TraceLog(log, "LOG_ERROR", "ERROR: Body has too many children!")]
  ELSE [bodies |-> [bs EXCEPT ![parent].children =
                        IF bs[parent].childrenCount \in DOMAIN @
                        THEN [@ EXCEPT ![bs[parent].childrenCount] = children]
                        ELSE @,
                      ![parent].childrenCount = @ + 1],
        log |-> log]

\* AddBodyChildren(parent, children): the bodies and the log afterwards.
AddBodyChildren(bs, log, parent, children) ==
  IF bs[parent].childrenCount >= MAX_BODY_CHILDREN
  THEN [bodies |-> bs, log |-> TraceLog(log, "LOG_ERROR", "ERROR: Body has too many children!")]
  ELSE [bodies |-> [bs EXCEPT ![parent].children[bs[parent].childrenCount] = children,
                              ![parent].childrenCount = @ + 1],
        log |-> log]

\* ------------------------------------------------------------- main: setup
Init ==
  /\ pc = "create"
  /\ step = 1
  /\ bodies = << >>
  /\ rotationSpeed = 2
  /\ showHelpMenu = FALSE
  /\ showBodyLabels = TRUE
  /\ camera = 0
  /\ resources = {}
  /\ released = {}
  /\ frameLog = << >>
  /\ traceLog = << >>
  /\ frames = 0
  /\ twin = << >>
  /\ twinLabels = TRUE
  /\ startFrame = 0 - 1
  /\ startOrbit = << >>
  /\ lastAdd = << >>
  /\ addCalls = 0

\* One "Body x = CreateBody(...)" line of main.
CreateStep ==
  /\ pc = "create"
  /\ LET c == CreateCalls[step]
         r == CreateBody([resources |-> resources, released |-> released], c)
     IN /\ bodies' = bodies @@ (c.var :> r.body)
        /\ twin' = twin @@ (c.var :> r.body)
        /\ resources' = r.gpu.resources
        /\ released' = r.gpu.released
  /\ IF step = Len(CreateCalls)
     THEN pc' = "attach" /\ step' = 1
     ELSE pc' = pc /\ step' = step + 1
  /\ UNCHANGED << rotationSpeed, showHelpMenu, showBodyLabels, camera,
                  frameLog, traceLog, frames, twinLabels, startFrame,
                  startOrbit, lastAdd, addCalls >>

\* One "AddBodyChildren(&p, &c)" line of main.
AttachStep ==
  /\ pc = "attach"
  /\ LET a == AttachCalls[step]
         r == AddBodyChildren(bodies, traceLog, a[1], a[2])
         t == AddBodyChildren(twin, traceLog, a[1], a[2])
     IN /\ bodies' = r.bodies
        /\ traceLog' = r.log
        /\ twin' = t.bodies
        /\ lastAdd' = a
        /\ addCalls' = addCalls + 1
  /\ IF step = Len(AttachCalls)
     THEN pc' = "loop" /\ step' = 1
     ELSE pc' = pc /\ step' = step + 1
  /\ UNCHANGED << rotationSpeed, showHelpMenu, showBodyLabels, camera, resources,
                  released, frameLog, frames, twinLabels, startFrame, startOrbit >>

\* -------------------------------------------------------------- DrawBody
RECURSIVE DrawBody(_, _), DrawChildren(_, _, _)
RECURSIVE DrawBodyLabel(_, _), DrawChildrenLabels(_, _, _)

\* The per-frame angular step with the speed's sign dropped.
OrbitStep_Abs(speed, period) ==
  ((IF speed < 0 THEN 0 - speed ELSE speed) * 360 * AngleScale) \div (SpeedScale * period)

\* The per-frame angular step taken over half a turn.
OrbitStep_Half(speed, period) ==
  (speed * 180 * AngleScale) \div (SpeedScale * period)

\* rotationSpeed*360/child->orbitPeriod, in angle units.
OrbitStep(speed, period) ==
  (speed * 360 * AngleScale) \div (SpeedScale * period)

\* The loop of DrawBody with "=" in place of "+=".
DrawChildren_Assign(st, body, i) ==
  IF ~(i < st.bodies[body].childrenCount) THEN st
  ELSE
    LET child == st.bodies[body].children[i]
        s1 == [st EXCEPT !.bodies[child].orbitPosition =
                   OrbitStep(st.rotationSpeed, st.bodies[child].orbitPeriod)]
        s2 == rlPushMatrix(s1)
        s3 == rlRotatef(s2, s1.bodies[child].orbitPosition)
        s4 == rlTranslatef(s3, s1.bodies[child].orbitRadius)
        s5 == rlRotatef(s4, 0 - s1.bodies[child].orbitPosition)
        s6 == DrawBody(s5, child)
        s7 == rlPopMatrix(s6)
        s8 == Emit(s7, "DrawCircle3D", child, s7.matrix)
    IN DrawChildren(s8, body, i + 1)

\* The loop of DrawBody from index i on: "for (; i < body->childrenCount; i++)".
DrawChildren(st, body, i) ==
  IF ~(i < st.bodies[body].childrenCount) THEN st
  ELSE
    LET child == st.bodies[body].children[i]
        s1 == [st EXCEPT !.bodies[child].orbitPosition =
                   @ + OrbitStep(st.rotationSpeed, st.bodies[child].orbitPeriod)]
        s2 == rlPushMatrix(s1)
        s3 == rlRotatef(s2, s1.bodies[child].orbitPosition)
        s4 == rlTranslatef(s3, s1.bodies[child].orbitRadius)
        s5 == rlRotatef(s4, 0 - s1.bodies[child].orbitPosition)
        s6 == DrawBody(s5, child)
        s7 == rlPopMatrix(s6)
        s8 == Emit(s7, "DrawCircle3D", child, s7.matrix)
    IN DrawChildren(s8, body, i + 1)

\* DrawBody whose loop starts at the second child.
DrawBody_SkipFirstChild(st, body) ==
  LET s1 == Emit(st, "DrawModel", body, st.matrix)
      pos == GetWorldToScreen(Vector3(s1.bodies[body].orbitRadius, s1.bodies[body].radius, 0),
                              s1.camera)
      s2 == Emit([s1 EXCEPT !.bodies[body].labelPosition = pos],
                 "GetWorldToScreen", body, pos)
  IN DrawChildren(s2, body, 1)

\* DrawBody loading the body's texture again on every draw.
DrawBody_ReloadsTexture(st, body) ==
  LET s0 == [st EXCEPT !.gpu = LoadTexture(@)]
      s1 == Emit(s0, "DrawModel", body, s0.matrix)
      pos == GetWorldToScreen(Vector3(s1.bodies[body].orbitRadius, s1.bodies[body].radius, 0),
                              s1.camera)
      s2 == Emit([s1 EXCEPT !.bodies[body].labelPosition = pos],
                 "GetWorldToScreen", body, pos)
  IN DrawChildren(s2, body, 0)

\* DrawBody(body, camera) on the drawing state st.
DrawBody(st, body) ==
  LET s1 == Emit(st, "DrawModel", body, st.matrix)
      pos == GetWorldToScreen(Vector3(s1.bodies[body].orbitRadius, s1.bodies[body].radius, 0),
                              s1.camera)
      s2 == Emit([s1 EXCEPT !.bodies[body].labelPosition = pos],
                 "GetWorldToScreen", body, pos)
  IN DrawChildren(s2, body, 0)

\* --------------------------------------------------------- DrawBodyLabel
\* The loop of DrawBodyLabel from index i on.
DrawChildrenLabels(st, body, i) ==
  IF ~(i < st.bodies[body].childrenCount) THEN st
  ELSE DrawChildrenLabels(DrawBodyLabel(st, st.bodies[body].children[i]), body, i + 1)

\* DrawBodyLabel that also advances the body's orbit.
DrawBodyLabel_Advances(st, body) ==
  LET s1 == Emit(st, "DrawText", body, st.bodies[body].labelPosition)
      s2 == [s1 EXCEPT !.bodies[body].orbitPosition = @ + st.rotationSpeed]
  IN DrawChildrenLabels(s2, body, 0)

\* DrawBodyLabel(body) on the drawing state st.
DrawBodyLabel(st, body) ==
  DrawChildrenLabels(Emit(st, "DrawText", body, st.bodies[body].labelPosition), body, 0)

\* ------------------------------------------------------ main: frame loop
\* The drawing state a frame starts from.
FrameStart(bs, gpu, cam, speed) ==
  [ bodies |-> bs, gpu |-> gpu, camera |-> cam, rotationSpeed |-> speed,
    matrix |-> << >>, stack |-> << >>, log |-> << >> ]

\* The Draw section with the labels drawn inside the 3D pass, before the
\* bodies.
DrawSection_LabelsFirst(st, labels, help) ==
  LET s1 == Emit(Emit(Emit(st, "BeginDrawing", "", << >>), "ClearBackground", "", << >>),
                 "BeginMode3D", "", << >>)
      s2 == IF labels THEN DrawBodyLabel(s1, "sun") ELSE s1
      s3 == DrawBody(s2, "sun")
      s4 == Emit(s3, "EndMode3D", "", << >>)
      s5 == Emit(s4, "DrawText", "", "SPEED")
      s6 == Emit(s5, "DrawText", "", IF help THEN "HELP" ELSE "HINT")
  IN Emit(Emit(s6, "DrawFPS", "", << >>), "EndDrawing", "", << >>)

\* The Draw section of the loop body (BeginDrawing .. EndDrawing).
DrawSection(st, labels, help) ==
  LET s1 == Emit(Emit(Emit(st, "BeginDrawing", "", << >>), "ClearBackground", "", << >>),
                 "BeginMode3D", "", << >>)
      s2 == DrawBody(s1, "sun")
      s3 == Emit(s2, "EndMode3D", "", << >>)
      s4 == IF labels THEN DrawBodyLabel(s3, "sun") ELSE s3
      s5 == Emit(s4, "DrawText", "", "SPEED")
      s6 == Emit(s5, "DrawText", "", IF help THEN "HELP" ELSE "HINT")
  IN Emit(Emit(s6, "DrawFPS", "", << >>), "EndDrawing", "", << >>)

\* The camera poses UpdateCamera can leave: the initial one and a moved one.
CameraPoses == {0, 1}

\* One iteration of the loop.  keyH, keyL, keyLeft, keyRight: what
\* IsKeyPressed returns; cam: the pose UpdateCamera leaves; twinKeyL: the
\* second run's KEY_L; limit: the frame bound.
Frame(keyH, keyL, keyLeft, keyRight, cam, twinKeyL, limit) ==
  /\ pc = "loop"
  /\ frames < limit
  /\ camera' = cam
  /\ showHelpMenu' = (IF keyH THEN ~showHelpMenu ELSE showHelpMenu)
  /\ showBodyLabels' = (IF keyL THEN ~showBodyLabels ELSE showBodyLabels)
  /\ twinLabels' = (IF twinKeyL THEN ~twinLabels ELSE twinLabels)
  /\ rotationSpeed' = (rotationSpeed - (IF keyLeft THEN 1 ELSE 0)) + (IF keyRight THEN 1 ELSE 0)
  /\ LET gpu == [resources |-> resources, released |-> released]
         r == DrawSection(FrameStart(bodies, gpu, camera', rotationSpeed'),
                          showBodyLabels', showHelpMenu')
         t == DrawSection(FrameStart(twin, gpu, camera', rotationSpeed'),
                          twinLabels', showHelpMenu')
     IN /\ bodies' = r.bodies
        /\ frameLog' = r.log
        /\ resources' = r.gpu.resources
        /\ released' = r.gpu.released
        /\ twin' = t.bodies
  /\ frames' = frames + 1
  /\ UNCHANGED << pc, step, traceLog, startFrame, startOrbit, lastAdd, addCalls >>

\* A frame with any input.
AnyFrame ==
  \E keyH \in BOOLEAN, keyL \in BOOLEAN, keyLeft \in BOOLEAN, keyRight \in BOOLEAN,
     cam \in CameraPoses, twinKeyL \in BOOLEAN :
       Frame(keyH, keyL, keyLeft, keyRight, cam, twinKeyL, MaxFrames)

\* WindowShouldClose() returns true: the loop ends and main calls CloseWindow.
Exit ==
  /\ pc = "loop"
  /\ pc' = "done"
  /\ LET g == CloseWindow([resources |-> resources, released |-> released])
     IN resources' = g.resources /\ released' = g.released
  /\ UNCHANGED << step, bodies, rotationSpeed, showHelpMenu, showBodyLabels, camera,
                  frameLog, traceLog, frames, twin, twinLabels, startFrame,
                  startOrbit, lastAdd, addCalls >>

Next == CreateStep \/ AttachStep \/ AnyFrame \/ Exit

Spec == Init /\ [][Next]_vars

\* --------------------------------------- runs at a constant rotationSpeed
\* A frame in which only the speed keys may be pressed, before the
\* constant-speed run starts.
SpeedFrame ==
  /\ startFrame < 0
  /\ frames < MaxMarkFrame
  /\ \E keyLeft \in BOOLEAN, keyRight \in BOOLEAN :
       Frame(FALSE, FALSE, keyLeft, keyRight, camera, FALSE, MaxRunFrames)

\* The constant-speed run starts here: the frame count and every body's
\* orbitPosition are remembered.
Mark ==
  /\ pc = "loop"
  /\ startFrame < 0
  /\ startFrame' = frames
  /\ startOrbit' = [b \in DOMAIN bodies |-> bodies[b].orbitPosition]
  /\ UNCHANGED << pc, step, bodies, rotationSpeed, showHelpMenu, showBodyLabels,
                  camera, resources, released, frameLog, traceLog, frames, twin,
                  twinLabels, lastAdd, addCalls >>

\* A frame of the constant-speed run: no key is pressed.
ConstFrame ==
  /\ startFrame >= 0
  /\ Frame(FALSE, FALSE, FALSE, FALSE, camera, FALSE, MaxRunFrames)

NextConst == CreateStep \/ AttachStep \/ SpeedFrame \/ Mark \/ ConstFrame \/ Exit

SpecConst == Init /\ [][NextConst]_vars

\* ------------------------------------ any sequence of AddBodyChildren calls
\* The bodies and resources after the first n CreateBody calls of main.
RECURSIVE AfterCreate(_)
AfterCreate(n) ==
  IF n = 0 THEN [bodies |-> << >>, gpu |-> [resources |-> {}, released |-> {}]]
  ELSE LET prev == AfterCreate(n - 1)
           r == CreateBody(prev.gpu, CreateCalls[n])
       IN [bodies |-> prev.bodies @@ (CreateCalls[n].var :> r.body), gpu |-> r.gpu]

\* The Body variables the attach specification passes as parent and as child.
AddParents == {"sun", "earth"}
AddChildren == {"moon", "mars"}

\* main after its eleven CreateBody calls.
InitAdd ==
  /\ pc = "attach"
  /\ step = 1
  /\ bodies = AfterCreate(Len(CreateCalls)).bodies
  /\ twin = AfterCreate(Len(CreateCalls)).bodies
  /\ resources = AfterCreate(Len(CreateCalls)).gpu.resources
  /\ released = {}
  /\ rotationSpeed = 2
  /\ showHelpMenu = FALSE
  /\ showBodyLabels = TRUE
  /\ camera = 0
  /\ frameLog = << >>
  /\ traceLog = << >>
  /\ frames = 0
  /\ twinLabels = TRUE
  /\ startFrame = 0 - 1
  /\ startOrbit = << >>
  /\ lastAdd = << >>
  /\ addCalls = 0

\* One call AddBodyChildren(&parent, &children).
AddCall(parent, children) ==
  /\ pc = "attach"
  /\ addCalls < MaxAddCalls
  /\ LET r == AddBodyChildren(bodies, traceLog, parent, children)
     IN /\ bodies' = r.bodies
        /\ traceLog' = r.log
        /\ twin' = r.bodies
  /\ lastAdd' = <<parent, children>>
  /\ addCalls' = addCalls + 1
  /\ UNCHANGED << pc, step, rotationSpeed, showHelpMenu, showBodyLabels, camera,
                  resources, released, frameLog, frames, twinLabels, startFrame,
                  startOrbit >>

AnyAddCall == \E parent \in AddParents, children \in AddChildren : AddCall(parent, children)

SpecAdd == InitAdd /\ [][AnyAddCall]_vars

\* ================================================================ claims
\* Positions of the calls named call, for body, in a frame's log.
Calls(log, call, body) ==
  { i \in 1..Len(log) : log[i].call = call /\ log[i].body = body }

\* The bodies a body's children array holds.
ChildrenOf(bs, b) == { bs[b].children[i] : i \in 0..(bs[b].childrenCount - 1) }

\* The bodies reachable from the set s by child links (s included).
RECURSIVE Reach(_, _)
Reach(bs, s) ==
  LET next == s \cup UNION { ChildrenOf(bs, b) : b \in s }
  IN IF next = s THEN s ELSE Reach(bs, next)

\* The bodies of the tree rooted at the sun.
TreeBodies == Reach(bodies, {"sun"})

\* The bodies of the tree other than the root.
NonRoot == TreeBodies \ {"sun"}

\* The array slots that point to body b.
ParentSlots(b) ==
  { << p, i >> \in (DOMAIN bodies) \X (0..(MAX_BODY_CHILDREN - 1)) :
      i < bodies[p].childrenCount /\ bodies[p].children[i] = b }

\* (S*360)/orbitPeriod in angle units, S in tenths.
ClaimStep(speed, period) == (speed * FullTurn) \div (SpeedScale * period)

Running == pc \in {"loop", "done"}

\* ---- C1
\* C1: under any sequence of AddBodyChildren calls no childrenCount exceeds
\* MAX_BODY_CHILDREN, and a call on a parent that already holds
\* MAX_BODY_CHILDREN children changes no body, appends one LOG_ERROR message
\* to the log and leaves main where it was.
C1_CapacityRespected ==
  [][ /\ \A b \in DOMAIN bodies' : bodies'[b].childrenCount <= MAX_BODY_CHILDREN
      /\ \A p \in DOMAIN bodies :
           ( /\ addCalls' = addCalls + 1
             /\ lastAdd'[1] = p
             /\ bodies[p].childrenCount >= MAX_BODY_CHILDREN )
           => /\ bodies' = bodies
              /\ Len(traceLog') = Len(traceLog) + 1
              /\ traceLog'[Len(traceLog')][1] = "LOG_ERROR"
              /\ SubSeq(traceLog', 1, Len(traceLog)) = traceLog
              /\ pc' = pc
    ]_vars

\* A call was rejected on a parent holding MAX_BODY_CHILDREN children.
C1_Witness ==
  /\ addCalls > MAX_BODY_CHILDREN
  /\ Len(traceLog) >= 1
  /\ bodies[lastAdd[1]].childrenCount = MAX_BODY_CHILDREN

\* ---- C2
\* C2: after every frame, the frame's log holds exactly one DrawModel call
\* for each body of the tree and none for any other body, and, when labels
\* are shown, exactly one label DrawText call for each body of the tree and
\* none for any other; the tree is sun, mercury, venus, earth, mars, moon,
\* so each pass makes 6 visits.
C2_EachBodyOnce ==
  (Running /\ frames > 0) =>
    /\ TreeBodies = {"sun", "mercury", "venus", "earth", "mars", "moon"}
    /\ \A b \in DOMAIN bodies :
         Cardinality(Calls(frameLog, "DrawModel", b)) = (IF b \in TreeBodies THEN 1 ELSE 0)
    /\ Cardinality({ i \in 1..Len(frameLog) : frameLog[i].call = "DrawModel" }) = 6
    /\ \A b \in DOMAIN bodies :
         Cardinality(Calls(frameLog, "DrawText", b)) =
           (IF showBodyLabels /\ b \in TreeBodies THEN 1 ELSE 0)
    /\ showBodyLabels =>
         Cardinality({ i \in 1..Len(frameLog) :
                         frameLog[i].call = "DrawText" /\ frameLog[i].body # "" }) = 6

\* A frame with labels shown has run and visited the moon in both passes.
C2_Witness ==
  /\ Running /\ frames > 0 /\ showBodyLabels
  /\ Calls(frameLog, "DrawModel", "moon") # {}
  /\ Calls(frameLog, "DrawText", "moon") # {}

\* ---- C3
\* C3 as stated: N frames into a constant-speed run, every non-root body's
\* stored orbitPosition is its starting value plus N*(S*360)/orbitPeriod
\* reduced modulo 360, so the stored angle lies in [0, 360).
C3_Original ==
  (Running /\ startFrame >= 0) =>
    \A b \in NonRoot :
      bodies[b].orbitPosition =
        (startOrbit[b] + (frames - startFrame) * ClaimStep(rotationSpeed, bodies[b].orbitPeriod))
          % FullTurn

\* C3 amended: N frames into a constant-speed run, every non-root body's
\* stored orbitPosition is its starting value plus N*(S*360)/orbitPeriod,
\* not reduced modulo 360.
C3_UnreducedSum ==
  (Running /\ startFrame >= 0) =>
    \A b \in NonRoot :
      bodies[b].orbitPosition =
        startOrbit[b] + (frames - startFrame) * ClaimStep(rotationSpeed, bodies[b].orbitPeriod)

\* A constant-speed run has taken the moon's stored angle to 360 or beyond.
C3_Witness ==
  /\ Running /\ startFrame >= 0 /\ frames - startFrame >= 60
  /\ bodies["moon"].orbitPosition >= FullTurn

\* ---- C4
\* C4 as stated: in every frame no non-root body's orbital angle decreases,
\* and it changes by rotationSpeed*360/orbitPeriod.
C4_Original ==
  [][ (pc = "loop" /\ frames' = frames + 1) =>
        \A b \in NonRoot :
          /\ bodies'[b].orbitPosition >= bodies[b].orbitPosition
          /\ bodies'[b].orbitPosition - bodies[b].orbitPosition =
               ClaimStep(rotationSpeed', bodies[b].orbitPeriod)
    ]_vars

\* C4 amended: in every frame each non-root body's orbital angle changes by
\* exactly rotationSpeed*360/orbitPeriod (rotationSpeed as left by the
\* frame's key presses); it does not decrease while rotationSpeed >= 0 and
\* decreases when rotationSpeed < 0.
C4_SignedStep ==
  [][ (pc = "loop" /\ frames' = frames + 1) =>
        \A b \in NonRoot :
          /\ bodies'[b].orbitPosition - bodies[b].orbitPosition =
               ClaimStep(rotationSpeed', bodies[b].orbitPeriod)
          /\ (rotationSpeed' >= 0) => (bodies'[b].orbitPosition >= bodies[b].orbitPosition)
          /\ (rotationSpeed' < 0) => (bodies'[b].orbitPosition < bodies[b].orbitPosition)
    ]_vars

\* Frames have run at a negative rotationSpeed and taken the moon's angle
\* below its initial value.
C4_Witness ==
  /\ pc = "loop" /\ rotationSpeed < 0
  /\ bodies["moon"].orbitPosition < 0

\* ---- C5
\* C5: in a constant-speed run at speed S > 0, after P/S frames (N frames
\* with N*S = P) a non-root body of orbit period P has an orbital angle equal
\* to its starting value modulo 360.
C5_Periodicity ==
  (Running /\ startFrame >= 0 /\ rotationSpeed > 0) =>
    \A b \in NonRoot :
      ((frames - startFrame) * rotationSpeed = SpeedScale * bodies[b].orbitPeriod)
        => (bodies[b].orbitPosition - startOrbit[b]) % FullTurn = 0

\* The earth (P = 365) after 1825 frames at speed 0.2.
C5_Witness ==
  /\ Running /\ startFrame >= 0 /\ rotationSpeed = 2
  /\ frames - startFrame = 1825
  /\ bodies["earth"].orbitPeriod = 365

\* ---- C6
\* C6: two runs given the same speed keys and camera, and label toggles of
\* their own, have equal bodies (every field, orbitPosition and
\* rotationPosition among them) after every frame.
C6_LabelsIndependent ==
  Running => twin = bodies

\* The two runs differ in label visibility after frames that moved the moon.
C6_Witness ==
  /\ Running /\ frames >= 2
  /\ twinLabels # showBodyLabels
  /\ bodies["moon"].orbitPosition # 0

\* ---- C7
\* The tree is single-rooted and acyclic: no slot points to the sun, every
\* other body of the tree is pointed to by exactly one slot, and no body is
\* reachable from its own children.
TreeShape ==
  /\ ParentSlots("sun") = {}
  /\ \A b \in NonRoot : Cardinality(ParentSlots(b)) = 1
  /\ \A b \in DOMAIN bodies :
       b \notin Reach(bodies, ChildrenOf(bodies, b))

\* C7: when setup ends the tree is single-rooted and acyclic, and no later
\* step changes any body's children or childrenCount or the sun's
\* orbitPosition.
C7_FixedTree ==
  [][ /\ (pc = "attach" /\ pc' = "loop") => TreeShape'
      /\ (pc = "loop") =>
           /\ \A b \in DOMAIN bodies :
                /\ bodies'[b].children = bodies[b].children
                /\ bodies'[b].childrenCount = bodies[b].childrenCount
           /\ bodies'["sun"].orbitPosition = bodies["sun"].orbitPosition
    ]_vars

\* Frames have moved the moon while the sun stays at rest in a tree of
\* that shape.
C7_Witness ==
  /\ pc = "loop" /\ frames >= 2
  /\ TreeShape
  /\ bodies["moon"].orbitPosition # 0
  /\ bodies["sun"].orbitPosition = 0

\* ---- C8
\* The point p taken in the frame whose transform is m.
InFrame(m, p) == [xyz |-> p.xyz, xf |-> m \o p.xf]

\* C8: the anchor DrawBody stores for a body is the projection of
\* (orbitRadius, radius, 0) taken in the transform active when the body is
\* drawn.
C8_AnchorInActiveFrame ==
  (Running /\ frames > 0) =>
    \A b \in TreeBodies :
      \A i \in Calls(frameLog, "DrawModel", b) :
        bodies[b].labelPosition =
          GetWorldToScreen(
            InFrame(frameLog[i].arg, Vector3(bodies[b].orbitRadius, bodies[b].radius, 0)),
            camera)

\* ---- C9
\* Matrix-stack depth after the first k calls of a frame's log.
Depth(log, k) ==
  Cardinality({ i \in 1..k : log[i].call = "rlPushMatrix" })
    - Cardinality({ i \in 1..k : log[i].call = "rlPopMatrix" })

\* The label calls of a frame's log.
LabelCalls(log) == { i \in 1..Len(log) : log[i].call = "DrawText" /\ log[i].body # "" }

\* C9: in every frame's log the matrix-stack depth never goes below its
\* starting value and is back at it when EndMode3D is called, every label
\* call comes after EndMode3D, and the anchor each label call uses is the
\* one GetWorldToScreen returned for that body earlier in the same frame.
C9_LabelsAfter3D ==
  (Running /\ frames > 0) =>
    /\ Cardinality(Calls(frameLog, "EndMode3D", "")) = 1
    /\ \A k \in 1..Len(frameLog) : Depth(frameLog, k) >= 0
    /\ \A e \in Calls(frameLog, "EndMode3D", "") :
         /\ Depth(frameLog, e) = 0
         /\ \A i \in LabelCalls(frameLog) :
              /\ i > e
              /\ \E j \in Calls(frameLog, "GetWorldToScreen", frameLog[i].body) :
                   /\ j < e
                   /\ frameLog[j].arg = frameLog[i].arg
                   /\ frameLog[i].arg.camera = camera

\* Labels were drawn in a frame whose camera pose differs from the initial
\* one, after matrices were pushed for the moon.
C9_Witness ==
  /\ Running /\ frames >= 2 /\ showBodyLabels /\ camera = 1
  /\ Calls(frameLog, "DrawText", "moon") # {}
  /\ \E k \in 1..Len(frameLog) : Depth(frameLog, k) = 2

\* ---- C10
\* The handles of the eleven textures and eleven models CreateBody loads.
AllHandles ==
  { << "texture", 2 * k - 1 >> : k \in 1..Len(CreateCalls) }
    \cup { << "model", 2 * k >> : k \in 1..Len(CreateCalls) }

====
